---- MODULE Spec2Model ----
(***************************************************************************)
(* Model of the video job planner of ffmpeg_utils.py and video_meta.py:    *)
(* one job (snapshot_imgs, splice_vid or thumbnail) runs from its call to  *)
(* its return or to the exception that ends it.                            *)
(*                                                                         *)
(* Numbers.  The code computes with floats; the model computes exactly:    *)
(* a time is an integer count of ticks, SubMs ticks to the millisecond,    *)
(* so that the rounding done by the ".3f" format is a real operation.      *)
(* A formatted offset ("12.345") is the integer number of milliseconds it  *)
(* denotes.  A position in seconds mode is a count of ticks; a position    *)
(* in percent mode is a fraction, kept as its integer numerator over the   *)
(* denominator pct_den that the call's positions share.                    *)
(* A rate is a pair <<n, d>> standing for n/d frames per second.           *)
(***************************************************************************)
EXTENDS Integers, Sequences, FiniteSets, TLC

VARIABLES
    pc,                 \* position of the job in its function
    kind,               \* "snapshot" | "splice" | "thumbnail": the function called
    video_fp,           \* the input file's name, a sequence of characters
    pos_unit,           \* argument pos_unit ("none" is Python's None)
    pos_start,          \* argument pos_start
    pos_stop,           \* argument pos_stop
    pct_den,            \* the denominator of pos_start and pos_stop in percent mode
    out_fps,            \* argument out_fps, a rate <<n, d>>
    num_renders,        \* argument num_renders
    media,              \* the duration ffmpeg reports for the file, in centiseconds (0: none reported)
    legacy_suffix,      \* TRUE: pathlib of Python <= 3.13, FALSE: of Python >= 3.14
    tie_up,             \* how the ".3f" format resolves an exact decimal tie of the float it is given
    duration,           \* local duration, in ticks
    pos_cfg,            \* local pos_cfg, a dict over the keys "ss" and "to" (values in ms)
    renders,            \* local num_renders after _parse_num_renders
    tens_places,        \* local tens_places
    last_snapshot_sec,  \* local last_snapshot_sec, in ticks
    advisory,           \* which of the three advisory messages was printed
    engine,             \* the ffmpeg processes started so far, in order
    error               \* the exception that ended the job, or "none"

vars == <<pc, kind, video_fp, pos_unit, pos_start, pos_stop, pct_den, out_fps, num_renders,
          media, legacy_suffix, tie_up, duration, pos_cfg, renders, tens_places,
          last_snapshot_sec, advisory, engine, error>>

inputs == <<kind, video_fp, pos_unit, pos_start, pos_stop, pct_den, out_fps, num_renders,
            media, legacy_suffix, tie_up>>

----------------------------------------------------------------------------
(* Bounds of the model and constants of the program *)

\* ticks per millisecond: the resolution of the times the model enumerates
SubMs == 4
\* positions are enumerated within Near steps of each critical point
Near == 2
\* explicit render counts are enumerated up to MaxRenders
MaxRenders == 110
\* file names are enumerated up to MaxNameLen characters
MaxNameLen == 3

\* milliseconds per second: the ".3f" of the formatted offsets
MsPerSec == 1000
\* the 0.1 s margin kept before the end of the video, in ms
MarginMs == 100
\* the duration marker has centisecond precision: ms per centisecond
CsMs == 10

TicksPerSec == MsPerSec * SubMs
TicksPerCs == CsMs * SubMs
Margin == MarginMs * SubMs

Max(a, b) == IF a >= b THEN a ELSE b
Min(a, b) == IF a <= b THEN a ELSE b

EmptyDict == [k \in {} |-> 0]

----------------------------------------------------------------------------
(* video_meta.py *)

\* _extract_duration: hours, minutes, seconds and centiseconds of the marker
\* summed by timedelta; in ticks
ExtractDuration(cs) == cs * TicksPerCs

----------------------------------------------------------------------------
(* _parse_start_stop *)

\* f"{x:.3f}": x in ticks to the nearest millisecond.  A time halfway between
\* two milliseconds is no float: the float that stands for it lies on either
\* side, and the format rounds it up or down accordingly (tie_up).
FormatMs(x, up) ==
    LET q == x \div SubMs
        r == x % SubMs
    IN  IF 2 * r < SubMs THEN q
        ELSE IF 2 * r > SubMs THEN q + 1
        ELSE IF up THEN q + 1 ELSE q

\* float(cfg[k]): a formatted offset back to a time in ticks
ParseMs(ms) == ms * SubMs

\* the 0 clamp forgotten
ClampStartNoFloor(x, dur) == Min(x, dur - Margin)

\* max(0, min(x, duration - 0.1))
ClampStart(x, dur) == Max(0, Min(x, dur - Margin))

\* pos * duration for a percent-mode position pos / den (the calls of the
\* model make it a whole number of ticks)
Scaled(pos, den, dur) == (pos * dur) \div den

\* the branch pos_unit == "percent"; start and stop are numerators over den,
\* -den is the sentinel -1 and den is 1
ParsePercent(dur, den, start, stop, up) ==
    LET pos_start_time == ClampStart(Scaled(start, den, dur), dur)
        ss == IF pos_start_time # 0
              THEN "ss" :> FormatMs(pos_start_time, up)
              ELSE EmptyDict
        to == IF stop # -den /\ stop < den /\ stop > start
              THEN "to" :> FormatMs(Max(pos_start_time, Min(Scaled(stop, den, dur), dur)), up)
              ELSE EmptyDict
    IN  ss @@ to

\* the branch pos_unit == "seconds"; pos_start is reassigned to its clamped
\* value before the stop is compared with it; -TicksPerSec is the sentinel -1
ParseSeconds(dur, start, stop, up) ==
    LET clamped == ClampStart(start, dur)
        ss == IF clamped # 0
              THEN "ss" :> FormatMs(clamped, up)
              ELSE EmptyDict
        to == IF stop # -TicksPerSec /\ stop < dur /\ stop > clamped
              THEN "to" :> FormatMs(Max(clamped, Min(stop, dur)), up)
              ELSE EmptyDict
    IN  ss @@ to

\* _parse_start_stop for the two units it accepts
ParseStartStop(dur, unit, den, start, stop, up) ==
    IF unit = "percent"
    THEN ParsePercent(dur, den, start, stop, up)
    ELSE ParseSeconds(dur, start, stop, up)

\* pos_unit or "percent"
EffectiveUnit(unit) == IF unit = "none" THEN "percent" ELSE unit

----------------------------------------------------------------------------
(* _parse_num_renders *)

\* Python's round(n / d) for d > 0: to the nearest integer, ties to even
RoundHalfEven(n, d) ==
    LET q == n \div d
        r == n % d
    IN  IF 2 * r < d THEN q
        ELSE IF 2 * r > d THEN q + 1
        ELSE IF q % 2 = 0 THEN q ELSE q + 1

\* round(span / out_fps), span in ticks
SpanRenders(span, fps) == RoundHalfEven(span * fps[2], TicksPerSec * fps[1])

ParseNumRenders(cfg, num, fps, dur) ==
    IF num = -1
    THEN IF "ss" \in DOMAIN cfg /\ "to" \in DOMAIN cfg
         THEN SpanRenders(ParseMs(cfg["to"]) - ParseMs(cfg["ss"]), fps)
         ELSE IF "ss" \in DOMAIN cfg
         THEN SpanRenders(dur - ParseMs(cfg["ss"]), fps)
         ELSE IF "to" \in DOMAIN cfg
         THEN SpanRenders(ParseMs(cfg["to"]), fps)
         ELSE SpanRenders(dur, fps)
    ELSE Max(1, num)

----------------------------------------------------------------------------
(* snapshot_imgs: the file name template and the advisory message *)

RECURSIVE Pow10(_)
Pow10(k) == IF k = 0 THEN 1 ELSE 10 * Pow10(k - 1)

\* round(math.log10(n)) for an integer n >= 1.  round(y) = k exactly when
\* k - 1/2 <= y < k + 1/2 (log10 of an integer is never at a tie), that is
\* when 10^(2k-1) <= n^2 < 10^(2k+1).
RoundLog10(n) ==
    CHOOSE k \in 0..4 : /\ (k = 0 \/ Pow10(2 * k - 1) <= n * n)
                        /\ n * n < Pow10(2 * k + 1)

\* the "+ 1" forgotten
TensPlacesNoCarry(n) == RoundLog10(n)

\* round(math.log10(num_renders)) + 1
TensPlaces(n) == RoundLog10(n) + 1

\* the decimal digits of i >= 0, as character codes
RECURSIVE Digits(_)
Digits(i) == IF i < 10 THEN <<48 + i>> ELSE Append(Digits(i \div 10), 48 + (i % 10))

RECURSIVE ZeroPad(_, _)
ZeroPad(ds, width) == IF Len(ds) >= width THEN ds ELSE ZeroPad(<<48>> \o ds, width)

\* the name the image2 muxer writes for index i under "img-%0<width>d.jpg",
\* as character codes
SnapshotName(i, width) ==
    <<105, 109, 103, 45>> \o ZeroPad(Digits(i), width) \o <<46, 106, 112, 103>>

\* s < t for two strings, as Python and the file system's listing compare them
RECURSIVE LexLess(_, _)
LexLess(s, t) ==
    IF t = << >> THEN FALSE
    ELSE IF s = << >> THEN TRUE
    ELSE IF Head(s) # Head(t) THEN Head(s) < Head(t)
    ELSE LexLess(Tail(s), Tail(t))

\* num_renders / out_fps, in ticks (the rates of the model divide a second)
RendersSpan(n, fps) == (n * fps[2] * TicksPerSec) \div fps[1]

\* num_renders / out_fps + float(pos_cfg["ss"]) if "ss" in pos_cfg else 0:
\* the conditional expression binds weaker than the sum
LastSnapshotSec(cfg, n, fps) ==
    IF "ss" \in DOMAIN cfg THEN RendersSpan(n, fps) + ParseMs(cfg["ss"]) ELSE 0

\* the branch of the "Helpful info printing" taken
Advisory(cfg, last, dur) ==
    IF last > dur THEN "outside_duration"
    ELSE IF "to" \in DOMAIN cfg /\ last > ParseMs(cfg["to"]) THEN "outside_truncation"
    ELSE "estimated"

----------------------------------------------------------------------------
(* splice_vid: pathlib's stem and suffix of a file name *)

\* name.rfind("."), counted from 1 (0: no dot)
RFindDot(name) ==
    IF \E i \in 1..Len(name) : name[i] = "."
    THEN CHOOSE i \in 1..Len(name) : name[i] = "." /\ \A j \in (i + 1)..Len(name) : name[j] # "."
    ELSE 0

\* where the suffix of name starts (0: no suffix).  Python <= 3.13: the last
\* dot, unless it is the first or the last character.  Python >= 3.14
\* (splitext): the last dot, unless only dots precede it.
SuffixAt(name, legacy) ==
    LET i == RFindDot(name)
    IN  IF legacy
        THEN IF 1 < i /\ i < Len(name) THEN i ELSE 0
        ELSE IF \E k \in 1..(i - 1) : name[k] # "." THEN i ELSE 0

Suffix(name, legacy) ==
    LET i == SuffixAt(name, legacy)
    IN  IF i = 0 THEN << >> ELSE SubSeq(name, i, Len(name))

Stem(name, legacy) ==
    LET i == SuffixAt(name, legacy)
    IN  IF i = 0 THEN name ELSE SubSeq(name, 1, i - 1)

\* video_fp.stem + "-spliced" + video_fp.suffix
SplicedName(name, legacy) ==
    Stem(name, legacy) \o <<"-", "s", "p", "l", "i", "c", "e", "d">> \o Suffix(name, legacy)

----------------------------------------------------------------------------
(* The ffmpeg processes a job starts *)

\* VideoMeta.get: ffmpeg.input(video_fp).execute(), no output, no option
ProbeRun == [job |-> "probe", artifact |-> FALSE, y |-> FALSE,
             opts |-> EmptyDict, frames |-> 0, width |-> 0]

\* snapshot_imgs: input(video_fp, pos_cfg).output(out_dir / fn_format,
\* {"frames:v": num_renders, ...}).option("y")
SnapshotRun(cfg, n, w) == [job |-> "snapshot", artifact |-> TRUE, y |-> TRUE,
                           opts |-> cfg, frames |-> n, width |-> w]

\* splice_vid: input(video_fp, pos_cfg).output(out_fp, {}).option("y")
SpliceRun(cfg) == [job |-> "splice", artifact |-> TRUE, y |-> TRUE,
                   opts |-> cfg, frames |-> 0, width |-> 0]

\* thumbnail: "ffmpeg -i {video_fp} -vf thumbnail -frames:v 1 {out_fp}"
ThumbnailRun == [job |-> "thumbnail", artifact |-> TRUE, y |-> FALSE,
                 opts |-> EmptyDict, frames |-> 1, width |-> 0]

----------------------------------------------------------------------------
(* The calls the model enumerates *)

DefaultName == <<"v", ".", "v">>

\* file names over a letter and the dot, with at least one letter
Names ==
    {n \in UNION {[1..l -> {"v", "."}] : l \in 1..MaxNameLen} :
        \E i \in 1..Len(n) : n[i] = "v"}

\* the durations, in centiseconds, of the calls that explore the window
DurationsCs == {1, 10, 11, 50, 500}

\* the durations, in centiseconds, of the calls that explore the render plan
PlanDurationsCs == {11, 1000, 6000}

\* the rates of the model: 0.2, 1 and 2 snapshots per second
Rates == {<<1, 5>>, <<1, 1>>, <<2, 1>>}

\* the number 1 on the scale of a unit's positions, for a file of duration
\* dur: in percent mode the model's positions are the fractions t / dur, whose
\* product with the duration is t ticks
One(unit, dur) == IF unit = "seconds" THEN TicksPerSec ELSE dur

Around(centres) == UNION {{c + k : k \in -Near..Near} : c \in centres}

\* start positions: those that resolve to a time within Near ticks of 0, of
\* the middle, of duration - 0.1 or of the end
Starts(dur) == Around({0, dur \div 2, dur - Margin, dur})

\* stop positions: the same and the sentinel -1
Stops(unit, dur) == Starts(dur) \cup {-One(unit, dur)}

Job(k, fp, u, a, b, d, f, n, m, lg, t) ==
    [kind |-> k, video_fp |-> fp, pos_unit |-> u, pos_start |-> a, pos_stop |-> b,
     pct_den |-> d, out_fps |-> f, num_renders |-> n, media |-> m,
     legacy_suffix |-> lg, tie_up |-> t]

\* snapshot calls over every window of the grid, with the default rate and count
WindowJobs ==
    UNION {
        {Job("snapshot", DefaultName, u, a, b, ExtractDuration(cs), <<1, 1>>, n, cs, TRUE, t) :
            a \in Starts(ExtractDuration(cs)),
            b \in Stops(u, ExtractDuration(cs)),
            n \in {-1, 1},
            t \in BOOLEAN}
        : u \in {"percent", "seconds"}, cs \in DurationsCs}

\* snapshot calls over every rate and count, on a few windows in seconds
PlanJobs ==
    UNION {
        {Job("snapshot", DefaultName, "seconds", a, b, 1, f, n, cs, TRUE, TRUE) :
            a \in {0, ExtractDuration(cs) \div 2},
            b \in {-TicksPerSec, 3 * (ExtractDuration(cs) \div 4)},
            f \in Rates,
            n \in -2..MaxRenders}
        : cs \in PlanDurationsCs}

\* calls with the default arguments, an unknown unit, or a file without a
\* duration marker; splice and thumbnail calls over every file name
OtherJobs ==
    {Job(k, DefaultName, u, 0, -1, 1, <<1, 1>>, -1, m, TRUE, TRUE) :
        k \in {"snapshot", "splice"}, u \in {"none", "frames"}, m \in {0, 1000}}
    \cup {Job("splice", fp, "seconds", 0, -TicksPerSec, 1, <<1, 1>>, -1, 1000, lg, TRUE) :
        fp \in Names, lg \in BOOLEAN}
    \cup {Job("thumbnail", fp, "none", 0, -1, 1, <<1, 1>>, -1, m, TRUE, TRUE) :
        fp \in Names, m \in {0, 1000}}

InitWith(jobs) ==
    /\ \E j \in jobs :
        /\ kind = j.kind
        /\ video_fp = j.video_fp
        /\ pos_unit = j.pos_unit
        /\ pos_start = j.pos_start
        /\ pos_stop = j.pos_stop
        /\ pct_den = j.pct_den
        /\ out_fps = j.out_fps
        /\ num_renders = j.num_renders
        /\ media = j.media
        /\ legacy_suffix = j.legacy_suffix
        /\ tie_up = j.tie_up
    /\ pc = "call"
    /\ duration = 0
    /\ pos_cfg = EmptyDict
    /\ renders = 0
    /\ tens_places = 0
    /\ last_snapshot_sec = 0
    /\ advisory = "none"
    /\ engine = << >>
    /\ error = "none"

Init == InitWith(WindowJobs \cup OtherJobs)

InitPlan == InitWith(PlanJobs \cup OtherJobs)

----------------------------------------------------------------------------
(* The steps of a job *)

\* VideoMeta.get(video_fp).duration_secs: ffmpeg runs on the file and the
\* duration is read from what it prints; KeyError when there is no marker
Probe ==
    /\ pc = "call"
    /\ engine' = Append(engine, ProbeRun)
    /\ IF media = 0
       THEN /\ pc' = "raised"
            /\ error' = "KeyError"
            /\ UNCHANGED duration
       ELSE /\ pc' = "probed"
            /\ duration' = ExtractDuration(media)
            /\ UNCHANGED error
    /\ UNCHANGED <<inputs, pos_cfg, renders, tens_places, last_snapshot_sec, advisory>>

\* pos_cfg = _parse_start_stop(duration, pos_unit or "percent", pos_start, pos_stop)
ParseWindow ==
    /\ pc = "probed"
    /\ kind \in {"snapshot", "splice"}
    /\ IF EffectiveUnit(pos_unit) \in {"percent", "seconds"}
       THEN /\ pos_cfg' = ParseStartStop(duration, EffectiveUnit(pos_unit), pct_den,
                                         pos_start, pos_stop, tie_up)
            /\ pc' = "parsed"
            /\ UNCHANGED error
       ELSE /\ pc' = "raised"
            /\ error' = "InvalidUnit"
            /\ UNCHANGED pos_cfg
    /\ UNCHANGED <<inputs, duration, renders, tens_places, last_snapshot_sec, advisory, engine>>

\* snapshot_imgs from _parse_num_renders to the advisory message;
\* math.log10(0) raises ValueError
PlanSnapshot ==
    /\ pc = "parsed"
    /\ kind = "snapshot"
    /\ renders' = ParseNumRenders(pos_cfg, num_renders, out_fps, duration)
    /\ IF renders' < 1
       THEN /\ pc' = "raised"
            /\ error' = "MathDomain"
            /\ UNCHANGED <<tens_places, last_snapshot_sec, advisory>>
       ELSE /\ tens_places' = TensPlaces(renders')
            /\ last_snapshot_sec' = LastSnapshotSec(pos_cfg, renders', out_fps)
            /\ advisory' = Advisory(pos_cfg, last_snapshot_sec', duration)
            /\ pc' = "planned"
            /\ UNCHANGED error
    /\ UNCHANGED <<inputs, duration, pos_cfg, engine>>

\* snapshot_imgs: the ffmpeg run that writes the snapshots
ExecuteSnapshot ==
    /\ pc = "planned"
    /\ engine' = Append(engine, SnapshotRun(pos_cfg, renders, tens_places))
    /\ pc' = "returned"
    /\ UNCHANGED <<inputs, duration, pos_cfg, renders, tens_places, last_snapshot_sec,
                   advisory, error>>

\* splice_vid: if video_fp.suffix != out_fp.suffix: raise ValueError
CheckFormat ==
    /\ pc = "parsed"
    /\ kind = "splice"
    /\ IF Suffix(video_fp, legacy_suffix)
           # Suffix(SplicedName(video_fp, legacy_suffix), legacy_suffix)
       THEN /\ pc' = "raised"
            /\ error' = "FormatMismatch"
       ELSE /\ pc' = "checked"
            /\ UNCHANGED error
    /\ UNCHANGED <<inputs, duration, pos_cfg, renders, tens_places, last_snapshot_sec,
                   advisory, engine>>

\* splice_vid: the ffmpeg run that writes the spliced video
ExecuteSplice ==
    /\ pc = "checked"
    /\ engine' = Append(engine, SpliceRun(pos_cfg))
    /\ pc' = "returned"
    /\ UNCHANGED <<inputs, duration, pos_cfg, renders, tens_places, last_snapshot_sec,
                   advisory, error>>

\* thumbnail: the ffmpeg command run through the shell after the probe
ExecuteThumbnail ==
    /\ pc = "probed"
    /\ kind = "thumbnail"
    /\ engine' = Append(engine, ThumbnailRun)
    /\ pc' = "returned"
    /\ UNCHANGED <<inputs, duration, pos_cfg, renders, tens_places, last_snapshot_sec,
                   advisory, error>>

Next ==
    \/ Probe
    \/ ParseWindow
    \/ PlanSnapshot
    \/ ExecuteSnapshot
    \/ CheckFormat
    \/ ExecuteSplice
    \/ ExecuteThumbnail

Spec == Init /\ [][Next]_vars

SpecPlan == InitPlan /\ [][Next]_vars

----------------------------------------------------------------------------
(* Properties *)

\* _parse_start_stop has returned: pos_cfg is the resolved window
WindowResolved ==
    \/ pc \in {"parsed", "planned", "checked", "returned"}
    \/ pc = "raised" /\ error \in {"MathDomain", "FormatMismatch"}

\* snapshot_imgs has computed the file name template and the advisory message
Planned == kind = "snapshot" /\ pc \in {"planned", "returned"}

HasSs == "ss" \in DOMAIN pos_cfg
HasTo == "to" \in DOMAIN pos_cfg

\* the resolved offsets, in ticks
SsTime == ParseMs(pos_cfg["ss"])
ToTime == ParseMs(pos_cfg["to"])

\* the start offset, or 0 when there is none
EffectiveStart == IF HasSs THEN SsTime ELSE 0

\* the number of decimal digits of n >= 1: floor(log10(n)) + 1
DigitCount(n) == Len(Digits(n))

\* C1: whenever the resolved window has both a start offset and an end
\* offset, 0 <= start_offset <= end_offset <= duration, for either unit and
\* every start and stop, out-of-range and negative ones included.
C1_WindowOrdered ==
    (WindowResolved /\ duration > 0 /\ HasSs /\ HasTo)
        => (0 <= SsTime /\ SsTime <= ToTime /\ ToTime <= duration)

\* C1 witness: a window with both offsets, resolved in seconds mode from a
\* start beyond the end of the video (clamped to duration - 0.1) and a stop
\* after the clamped start.
C1_Witness ==
    /\ WindowResolved /\ HasSs /\ HasTo
    /\ pos_unit = "seconds" /\ pos_start > duration
    /\ SsTime < ToTime

\* C2: the render count computed by _parse_num_renders is at least 1, whether
\* it is explicit or derived from the span and the rate.
C2_CountAtLeastOne ==
    (kind = "snapshot" /\ (pc \in {"planned", "returned"} \/ error = "MathDomain"))
        => renders >= 1

\* C3: the digit width of the file name template is the number of decimal
\* digits of the render count, floor(log10(count)) + 1.
C3_WidthIsDigitCount ==
    Planned => tens_places = DigitCount(renders)

\* C4: in percent mode with start in [0, 1], a start offset that is present
\* satisfies 0 < start_offset <= duration - 0.1.
C4_StartStrictlyPositive ==
    (/\ WindowResolved
     /\ EffectiveUnit(pos_unit) = "percent"
     /\ 0 <= pos_start /\ pos_start <= pct_den
     /\ HasSs)
        => (0 < SsTime /\ SsTime <= duration - Margin)

\* C5: an end offset that is present is strictly less than the duration and
\* strictly greater than the effective start offset.
C5_EndStrictlyInside ==
    (WindowResolved /\ HasTo)
        => (ToTime < duration /\ ToTime > EffectiveStart)

\* C6: there is no end offset when stop is the sentinel -1, or stop <= start,
\* or stop >= 1 in percent mode, or stop >= duration in seconds mode.
C6_NoEndOffset ==
    (/\ WindowResolved
     /\ \/ pos_stop = -One(EffectiveUnit(pos_unit), pct_den)
        \/ pos_stop <= pos_start
        \/ EffectiveUnit(pos_unit) = "percent" /\ pos_stop >= pct_den
        \/ EffectiveUnit(pos_unit) = "seconds" /\ pos_stop >= duration)
        => ~HasTo

\* C7: last_snapshot_sec is count / rate plus the start offset (0 when there
\* is none); the out-of-bounds warning is printed exactly when it exceeds the
\* duration or the end offset, and the estimate otherwise.
C7_AdvisoryMatches ==
    Planned =>
        LET last == RendersSpan(renders, out_fps) + EffectiveStart
            warn == last > duration \/ (HasTo /\ last > ToTime)
        IN  /\ last_snapshot_sec = last
            /\ (advisory \in {"outside_duration", "outside_truncation"}) <=> warn
            /\ (advisory = "estimated") <=> ~warn

\* C8: when splice_vid raises the format mismatch, no ffmpeg process has been
\* started, the one of the duration probe included.
C8_MismatchBeforeEngine ==
    (kind = "splice" /\ error = "FormatMismatch") => engine = << >>

\* C9: every ffmpeg run that writes an artifact carries the overwrite flag.
C9_AlwaysOverwrite ==
    \A i \in 1..Len(engine) : engine[i].artifact => engine[i].y

\* C10: the names written for the indices 1..count sort as strings in the
\* order of their indices; the width is at least the number of digits of count.
C10_NamesSortInOrder ==
    \A r \in 1..Len(engine) :
        (engine[r].job = "snapshot" /\ engine[r].frames >= 1) =>
            LET names == [i \in 1..engine[r].frames |-> SnapshotName(i, engine[r].width)]
            IN  /\ engine[r].width >= DigitCount(engine[r].frames)
                /\ \A i, j \in 1..engine[r].frames :
                       i < j => LexLess(names[i], names[j])

\* C10 witness: a snapshot run of at least 100 files, whose indices have
\* one, two and three digits.
C10_Witness ==
    \E r \in 1..Len(engine) : engine[r].job = "snapshot" /\ engine[r].frames >= 100

====
